---------------------------- MODULE Spec2Model ----------------------------
(***************************************************************************)
(* Model of the call-intel-widget dashboard: the two floating action       *)
(* buttons that fetch a report, the two dialog components that build a     *)
(* view model from it, the queue chart component, and the duration pipe.   *)
(*                                                                         *)
(* JavaScript strings are TLA+ strings (TLC concatenates them with \o and  *)
(* slices them with SubSeq).  JavaScript values that may be of several     *)
(* types are records tagged by the result of typeof.                       *)
(***************************************************************************)
EXTENDS Integers, Sequences, FiniteSets, TLC

VARIABLES
    opens,      \* how many times open() was called on either button
    pending,    \* the requests in flight, each the button that issued it
    failed,     \* how many requests ended in an HTTP or network error
    docs,       \* the heap of parsed JSON documents, one per response
    received,   \* history: each document as it was when its response arrived
    dialogs,    \* the dialog components MatDialog.open was asked to create
    pipeIn,     \* the string handed to DurationPipe.transform
    pipeOut,    \* what the last application of the pipe returned
    pipeCalls,  \* how many times the pipe has been applied in a row
    lastCall    \* the last call of getKpiIcon or of the label pipe, with
                \* its argument and what it returned

sysVars == <<opens, pending, failed, docs, received, dialogs>>
pipeVars == <<pipeIn, pipeOut, pipeCalls>>
callVars == <<lastCall>>
vars == <<opens, pending, failed, docs, received, dialogs,
          pipeIn, pipeOut, pipeCalls, lastCall>>

---------------------------------------------------------------------------
(* Bounds of the model *)

\* longest string handed to the duration pipe
MaxLen == 9
\* how many times the pipe is re-applied to its own output
MaxApply == 2
\* how many times the buttons are clicked
MaxOpens == 3
\* longest service_trends array
MaxTrends == 3
\* longest all_agents array
MaxAgents == 3

---------------------------------------------------------------------------
(* Strings *)

At(s, i) == SubSeq(s, i, i)

Digits == {"0", "1", "2", "3", "4", "5", "6", "7", "8", "9"}

IsDigit(c) == c \in Digits

AllDigits(s) == \A i \in 1..Len(s) : IsDigit(At(s, i))

RECURSIVE Repeat(_, _)
Repeat(c, n) == IF n <= 0 THEN "" ELSE c \o Repeat(c, n - 1)

\* mutant: the pad is prepended whatever the length ('0' + m[1])
PadStartPrepend(s, targetLength, pad) == pad \o s

\* String.prototype.padStart(targetLength, padString) with a one-character pad
PadStart(s, targetLength, pad) ==
    IF Len(s) >= targetLength THEN s
    ELSE Repeat(pad, targetLength - Len(s)) \o s

UpperCase == "ABCDEFGHIJKLMNOPQRSTUVWXYZ"
LowerCase == "abcdefghijklmnopqrstuvwxyz"

LowerChar(c) ==
    IF \E i \in 1..Len(UpperCase) : At(UpperCase, i) = c
    THEN At(LowerCase, CHOOSE i \in 1..Len(UpperCase) : At(UpperCase, i) = c)
    ELSE c

\* mutant: the key is compared as it is written
ToLowerCaseNot(s) == s

\* String.prototype.toLowerCase, for strings whose letters are A-Z and a-z
RECURSIVE ToLowerCase(_)
ToLowerCase(s) ==
    IF s = "" THEN ""
    ELSE LowerChar(At(s, 1)) \o ToLowerCase(SubSeq(s, 2, Len(s)))

\* String.prototype.includes
Includes(s, part) ==
    \E i \in 1..(Len(s) - Len(part) + 1) :
        SubSeq(s, i, i + Len(part) - 1) = part

---------------------------------------------------------------------------
(* JavaScript values *)

Undefined == [type |-> "undefined"]
Null == [type |-> "null"]
\* a number, held in hundredths (17.25 is Num(1725))
Num(h) == [type |-> "number", h |-> h]
Str(s) == [type |-> "string", s |-> s]
\* an object: fields is a function from its own property names to values
Obj(fields) == [type |-> "object", fields |-> fields]

\* o.name on an object value
Get(o, name) ==
    IF name \in DOMAIN o.fields THEN o.fields[name] ELSE Undefined

\* reading a property of undefined or null throws a TypeError
CanRead(o) == o.type \notin {"undefined", "null"}

\* typeof v: null is an 'object'
TypeOf(v) == IF v.type = "null" THEN "object" ELSE v.type

Truthy(v) ==
    CASE v.type = "undefined" -> FALSE
      [] v.type = "null" -> FALSE
      [] v.type = "number" -> v.h # 0
      [] v.type = "string" -> v.s # ""
      [] OTHER -> TRUE

\* the properties every object literal inherits from Object.prototype
ObjectPrototypeNames ==
    {"constructor", "__proto__", "hasOwnProperty", "isPrototypeOf",
     "propertyIsEnumerable", "toLocaleString", "toString", "valueOf",
     "__defineGetter__", "__defineSetter__", "__lookupGetter__",
     "__lookupSetter__"}

\* the value of an inherited property: the prototype object itself for
\* __proto__, a built-in function for the others
Inherited(name) ==
    IF name = "__proto__"
    THEN [type |-> "object", native |-> "Object.prototype"]
    ELSE [type |-> "function", native |-> name]

\* map[key] on an object literal written as the sequence of its
\* <<name, string>> entries in insertion order: the own property when there
\* is one, else the property inherited from Object.prototype, else undefined
Lookup(map, key) ==
    IF \E i \in 1..Len(map) : map[i][1] = key
    THEN Str(map[CHOOSE i \in 1..Len(map) : map[i][1] = key][2])
    ELSE IF key \in ObjectPrototypeNames THEN Inherited(key)
    ELSE Undefined

\* Number.prototype.toString for a non-negative number of at most two
\* decimals: the shortest decimal that denotes it
NumToString(h) ==
    LET int == h \div 100
        frac == h % 100
    IN  IF frac = 0 THEN ToString(int)
        ELSE IF frac % 10 = 0 THEN ToString(int) \o "." \o ToString(frac \div 10)
        ELSE ToString(int) \o "." \o ToString(frac \div 10) \o ToString(frac % 10)

\* mutant: a fraction digit is printed only when it is not zero (toString)
NumToFixed1Short(h) == NumToString(((h + 5) \div 10) * 10)

\* Number.prototype.toFixed(1): the tenth nearest to the number, the larger of
\* the two when it is exactly half way (x.25 and x.75, the only half-way
\* values among the inputs, are exact in binary floating point)
NumToFixed1(h) ==
    LET tenths == (h + 5) \div 10
    IN  ToString(tenths \div 10) \o "." \o ToString(tenths % 10)

\* what a template literal `${v}` puts in the string
TemplateString(v) ==
    CASE v.type = "string" -> v.s
      [] v.type = "number" -> NumToString(v.h)
      [] v.type = "undefined" -> "undefined"
      [] v.type = "null" -> "null"
      [] OTHER -> "[object Object]"

---------------------------------------------------------------------------
(* Date: time values are held in seconds, in the local time zone, which is  *)
(* taken to have a fixed offset                                             *)

InvalidDate == [nan |-> TRUE, t |-> 0]

DigitValue(c) == CHOOSE n \in 0..9 : ToString(n) = c

RECURSIVE ToInt(_)
ToInt(s) ==
    IF Len(s) = 0 THEN 0
    ELSE 10 * ToInt(SubSeq(s, 1, Len(s) - 1)) + DigitValue(At(s, Len(s)))

\* MakeDay: the number of days from 1970-01-01 to the civil date y-m-d
DaysFromCivil(y, m, d) ==
    LET yy == IF m <= 2 THEN y - 1 ELSE y
        era == yy \div 400
        yoe == yy - era * 400
        mp == IF m > 2 THEN m - 3 ELSE m + 9
        doy == (153 * mp + 2) \div 5 + d - 1
        doe == yoe * 365 + yoe \div 4 - yoe \div 100 + doy
    IN  era * 146097 + doe - 719468

\* YearFromTime, MonthFromTime, DateFromTime: the civil date of a day number
CivilFromDays(days) ==
    LET z == days + 719468
        era == z \div 146097
        doe == z - era * 146097
        yoe == (doe - doe \div 1460 + doe \div 36524 - doe \div 146096) \div 365
        doy == doe - (365 * yoe + yoe \div 4 - yoe \div 100)
        mp == (5 * doy + 2) \div 153
        d == doy - (153 * mp + 2) \div 5 + 1
        m == IF mp < 10 THEN mp + 3 ELSE mp - 9
        y == yoe + era * 400 + (IF m <= 2 THEN 1 ELSE 0)
    IN  [year |-> y, month |-> m, day |-> d]

\* Date.parse of "YYYY-MM-DDTHH:MM:SS", read as local time; any other
\* string of the inputs is one no engine parses
DateParse(s) ==
    LET shaped == /\ Len(s) = 19
                  /\ AllDigits(SubSeq(s, 1, 4))
                  /\ At(s, 5) = "-"
                  /\ AllDigits(SubSeq(s, 6, 7))
                  /\ At(s, 8) = "-"
                  /\ AllDigits(SubSeq(s, 9, 10))
                  /\ At(s, 11) = "T"
                  /\ AllDigits(SubSeq(s, 12, 13))
                  /\ At(s, 14) = ":"
                  /\ AllDigits(SubSeq(s, 15, 16))
                  /\ At(s, 17) = ":"
                  /\ AllDigits(SubSeq(s, 18, 19))
        y == ToInt(SubSeq(s, 1, 4))
        m == ToInt(SubSeq(s, 6, 7))
        d == ToInt(SubSeq(s, 9, 10))
        hh == ToInt(SubSeq(s, 12, 13))
        mi == ToInt(SubSeq(s, 15, 16))
        ss == ToInt(SubSeq(s, 18, 19))
    IN  IF shaped /\ m \in 1..12 /\ d \in 1..31
                  /\ hh \in 0..23 /\ mi \in 0..59 /\ ss \in 0..59
        THEN [nan |-> FALSE,
              t |-> DaysFromCivil(y, m, d) * 86400
                        + hh * 3600 + mi * 60 + ss]
        ELSE InvalidDate

\* new Date(value)
NewDate(v) ==
    CASE v.type = "string" -> DateParse(v.s)
      [] v.type = "number" -> [nan |-> FALSE, t |-> v.h \div 100000]
      [] v.type = "null" -> [nan |-> FALSE, t |-> 0]
      [] OTHER -> InvalidDate

\* mutant: an invalid date compares as earlier than every valid one
DateLessInvalidFirst(a, b) ==
    \/ a.nan /\ ~b.nan
    \/ ~a.nan /\ ~b.nan /\ a.t < b.t

\* a < b on two Date objects: both become numbers, and no comparison with
\* NaN is true
DateLess(a, b) == ~a.nan /\ ~b.nan /\ a.t < b.t

MonthNames == <<"Jan", "Feb", "Mar", "Apr", "May", "Jun",
                "Jul", "Aug", "Sep", "Oct", "Nov", "Dec">>

\* 1970-01-01 was a Thursday
WeekdayNames == <<"Sun", "Mon", "Tue", "Wed", "Thu", "Fri", "Sat">>

\* Date.prototype.toDateString: "Wed Jul 09 2025"
ToDateString(date) ==
    IF date.nan THEN "Invalid Date"
    ELSE LET days == date.t \div 86400
             c == CivilFromDays(days)
         IN  WeekdayNames[((days + 4) % 7) + 1] \o " "
                \o MonthNames[c.month] \o " "
                \o PadStart(ToString(c.day), 2, "0") \o " "
                \o PadStart(ToString(c.year), 4, "0")

\* formatDate: toLocaleDateString('en-US', {month: 'short', day: 'numeric',
\* year: 'numeric'}): "Jul 9, 2025"
FormatDate(date) ==
    IF date.nan THEN "Invalid Date"
    ELSE LET c == CivilFromDays(date.t \div 86400)
         IN  MonthNames[c.month] \o " " \o ToString(c.day) \o ", "
                \o ToString(c.year)

---------------------------------------------------------------------------
(* DurationPipe: v.match(/(\d+):(\d{2}):(\d{2})$/)                          *)

NoMatch == [matched |-> FALSE]

\* mutant: the pattern without its "$", which matches before the end too
HoursLenAtAnywhere(v, i) ==
    LET n == Len(v)
        tails(k) == /\ i + k + 5 <= n
                    /\ AllDigits(SubSeq(v, i, i + k - 1))
                    /\ At(v, i + k) = ":"
                    /\ AllDigits(SubSeq(v, i + k + 1, i + k + 2))
                    /\ At(v, i + k + 3) = ":"
                    /\ AllDigits(SubSeq(v, i + k + 4, i + k + 5))
        ks == {k \in 1..(n - i + 1) : tails(k)}
    IN  IF ks = {} THEN 0 ELSE CHOOSE k \in ks : \A j \in ks : j <= k

\* The pattern tried with the match starting at position i: \d+ is greedy
\* and gives digits back one at a time; the rest of the pattern is
\* ":" two digits ":" two digits and the end of the input.
HoursLenAt(v, i) ==
    LET n == Len(v)
        tails(k) == /\ i + k + 5 = n
                    /\ AllDigits(SubSeq(v, i, i + k - 1))
                    /\ At(v, i + k) = ":"
                    /\ AllDigits(SubSeq(v, i + k + 1, i + k + 2))
                    /\ At(v, i + k + 3) = ":"
                    /\ AllDigits(SubSeq(v, i + k + 4, i + k + 5))
        ks == {k \in 1..(n - i + 1) : tails(k)}
    IN  IF ks = {} THEN 0 ELSE CHOOSE k \in ks : \A j \in ks : j <= k

\* The regular expression engine tries the start positions left to right
\* and reports the first one where the pattern matches.
DurationMatch(v) ==
    LET starts == {i \in 1..Len(v) : HoursLenAt(v, i) > 0}
    IN  IF starts = {} THEN NoMatch
        ELSE LET i == CHOOSE x \in starts : \A y \in starts : x <= y
                 k == HoursLenAt(v, i)
             IN  [matched |-> TRUE,
                  g1 |-> SubSeq(v, i, i + k - 1),
                  g2 |-> SubSeq(v, i + k + 1, i + k + 2),
                  g3 |-> SubSeq(v, i + k + 4, i + k + 5)]

\* mutant: the match is replaced in place, as v.replace(pattern, ...) would,
\* so what precedes the hours is kept
DurationTransformKeepPrefix(v) ==
    LET m == DurationMatch(v)
    IN  IF m.matched
        THEN SubSeq(v, 1, Len(v) - Len(m.g1) - 6)
                \o PadStart(m.g1, 2, "0") \o ":" \o m.g2 \o ":" \o m.g3
        ELSE v

\* transform(v): m ? `${m[1].padStart(2, '0')}:${m[2]}:${m[3]}` : v
DurationTransform(v) ==
    LET m == DurationMatch(v)
    IN  IF m.matched
        THEN PadStart(m.g1, 2, "0") \o ":" \o m.g2 \o ":" \o m.g3
        ELSE v

---------------------------------------------------------------------------
(* Markdown summary: marked.parse and DomSanitizer.bypassSecurityTrustHtml  *)

\* marked.parse of one line of plain text, or of nothing
MarkedParse(md) == IF md = "" THEN "" ELSE "<p>" \o md \o "</p>\n"

BypassSecurityTrustHtml(html) == [trustedHtml |-> html]

\* data.summary || ''
SummaryOrEmpty(summary) == IF summary.type = "string" THEN summary.s ELSE ""

SummaryHtml(data) ==
    BypassSecurityTrustHtml(MarkedParse(SummaryOrEmpty(data.summary)))

---------------------------------------------------------------------------
(* AnalysisDialogComponent *)

\* typeof data.kpi.longest === 'object' && data.kpi.longest
IsLongestObject(longest) == TypeOf(longest) = "object" /\ Truthy(longest)

\* mutant: the duration is put through the duration pipe when composed
ComposeLongestFormatted(l) ==
    Str(DurationTransform(TemplateString(Get(l, "duration"))) \o " ("
            \o TemplateString(Get(l, "from_name")) \o " → "
            \o TemplateString(Get(l, "to_name")) \o ")")

\* `${l.duration} (${l.from_name} → ${l.to_name})`
ComposeLongest(l) ==
    Str(TemplateString(Get(l, "duration")) \o " ("
            \o TemplateString(Get(l, "from_name")) \o " → "
            \o TemplateString(Get(l, "to_name")) \o ")")

\* mutant: longest is always flattened into a string, whatever its type
AnalysisDisplayKpiStringified(kpi) ==
    LET longest == Get(kpi, "longest")
    IN  [k \in DOMAIN kpi.fields |->
            IF k = "longest"
            THEN IF IsLongestObject(longest)
                 THEN ComposeLongest(longest)
                 ELSE Str(TemplateString(longest))
            ELSE kpi.fields[k]]

\* this.displayKpi = { ...data.kpi }, then displayKpi['longest'] replaced
\* when kpi.longest is an object
AnalysisDisplayKpi(kpi) ==
    LET longest == Get(kpi, "longest")
    IN  [k \in DOMAIN kpi.fields |->
            IF k = "longest" /\ IsLongestObject(longest)
            THEN ComposeLongest(longest)
            ELSE kpi.fields[k]]

\* mutant: displayKpi is data.kpi itself, not a copy of it
DisplayKpiObjectAliased(ref) == <<ref, "kpi">>

\* the object displayKpi refers to: { ...data.kpi } is a new object, which
\* only the dialog constructed from document ref holds
DisplayKpiObject(ref) == <<ref, "displayKpi">>

\* the document after the constructor ran: displayKpi['longest'] = ... is
\* written to the object displayKpi refers to, which changes data.kpi only
\* if that object is data.kpi
AnalysisDataAfter(ref, data) ==
    IF DisplayKpiObject(ref) = <<ref, "kpi">>
    THEN [data EXCEPT !.kpi = Obj(AnalysisDisplayKpi(data.kpi))]
    ELSE data

AnalysisDialogConstruct(ref, data) ==
    [component |-> "AnalysisDialogComponent",
     data |-> ref,
     raised |-> FALSE,
     displayKpiObject |-> DisplayKpiObject(ref),
     displayKpi |-> AnalysisDisplayKpi(data.kpi),
     summaryHtml |-> SummaryHtml(data)]

---------------------------------------------------------------------------
(* QueueDialogComponent *)

QueueKpiKeys == {"Total Offered", "Total Answered", "Total Abandoned",
                 "Answer Rate", "Abandonment Rate", "Avg Wait Time",
                 "Max Wait Time", "Avg Handle Time"}

\* avg_handle_time_sec.toFixed(1) throws a TypeError unless the value is a
\* number: undefined has no properties and a string has no toFixed
QueueDisplayKpiRaises(qm) == Get(qm, "avg_handle_time_sec").type # "number"

QueueDisplayKpi(qm) ==
    [k \in QueueKpiKeys |->
        CASE k = "Total Offered" -> Get(qm, "total_offered")
          [] k = "Total Answered" -> Get(qm, "total_answered")
          [] k = "Total Abandoned" -> Get(qm, "total_abandoned")
          [] k = "Answer Rate" ->
                Str(TemplateString(Get(qm, "answer_rate")) \o "%")
          [] k = "Abandonment Rate" ->
                Str(TemplateString(Get(qm, "abandonment_rate")) \o "%")
          [] k = "Avg Wait Time" ->
                Str(TemplateString(Get(qm, "avg_wait_time_sec")) \o "s")
          [] k = "Max Wait Time" ->
                Str(TemplateString(Get(qm, "max_wait_time_sec")) \o "s")
          [] k = "Avg Handle Time" ->
                Str(NumToFixed1(Get(qm, "avg_handle_time_sec").h) \o "s")]

\* peak_interval.datetime and worst_abandon_interval.datetime are read from
\* the two interval objects: a TypeError when either object is missing
CalculateDateRangeRaises(qm) ==
    \/ ~CanRead(Get(qm, "peak_interval"))
    \/ ~CanRead(Get(qm, "worst_abandon_interval"))

\* mutant: the comparison of the start turned around
StartDateLater(peakDate, worstDate) ==
    IF DateLess(worstDate, peakDate) THEN peakDate ELSE worstDate

\* peakDate < worstDate ? peakDate : worstDate
StartDate(peakDate, worstDate) ==
    IF DateLess(peakDate, worstDate) THEN peakDate ELSE worstDate

\* peakDate > worstDate ? peakDate : worstDate
EndDate(peakDate, worstDate) ==
    IF DateLess(worstDate, peakDate) THEN peakDate ELSE worstDate

\* mutant: the two dates compared as instants
SameInstant(startDate, endDate) ==
    startDate.nan = endDate.nan /\ startDate.t = endDate.t

\* startDate.toDateString() === endDate.toDateString()
SameDateString(startDate, endDate) ==
    ToDateString(startDate) = ToDateString(endDate)

DateRangeOf(peakDate, worstDate) ==
    LET startDate == StartDate(peakDate, worstDate)
        endDate == EndDate(peakDate, worstDate)
    IN  IF SameDateString(startDate, endDate)
        THEN FormatDate(startDate)
        ELSE FormatDate(startDate) \o " - " \o FormatDate(endDate)

CalculateDateRange(qm) ==
    DateRangeOf(NewDate(Get(Get(qm, "peak_interval"), "datetime")),
                NewDate(Get(Get(qm, "worst_abandon_interval"), "datetime")))

NoCharts == [rendered |-> FALSE]

\* the constructor: displayKpi, then summaryHtml, then dateRange; the first
\* TypeError ends it
QueueDialogConstruct(ref, data) ==
    IF \/ QueueDisplayKpiRaises(data.queue_metrics)
       \/ CalculateDateRangeRaises(data.queue_metrics)
    THEN [component |-> "QueueDialogComponent",
          data |-> ref,
          raised |-> TRUE]
    ELSE [component |-> "QueueDialogComponent",
          data |-> ref,
          raised |-> FALSE,
          displayKpi |-> QueueDisplayKpi(data.queue_metrics),
          summaryHtml |-> SummaryHtml(data),
          dateRange |-> CalculateDateRange(data.queue_metrics),
          charts |-> NoCharts]

---------------------------------------------------------------------------
(* QueueChartsComponent *)

\* mutant: the comparator with its operands exchanged
HourCompareDescending(a, b) == b.HOUR - a.HOUR

\* (a, b) => a.HOUR - b.HOUR
HourCompare(a, b) == a.HOUR - b.HOUR

\* One step of the insertion sort Array.prototype.sort runs on a short
\* array: x goes after every element that does not compare greater than it,
\* which keeps elements that compare equal in their order.
RECURSIVE InsertSorted(_, _)
InsertSorted(sorted, x) ==
    IF Len(sorted) = 0 THEN <<x>>
    ELSE IF HourCompare(sorted[Len(sorted)], x) > 0
         THEN Append(InsertSorted(SubSeq(sorted, 1, Len(sorted) - 1), x),
                     sorted[Len(sorted)])
         ELSE Append(sorted, x)

RECURSIVE SortByHour(_)
SortByHour(trends) ==
    IF Len(trends) = 0 THEN <<>>
    ELSE InsertSorted(SortByHour(SubSeq(trends, 1, Len(trends) - 1)),
                      trends[Len(trends)])

\* createWaitTimeChart: the two bars
WaitTimeSeries(data) ==
    <<Get(data.queue_metrics, "avg_wait_time_sec"),
      Get(data.queue_metrics, "max_wait_time_sec")>>

\* mutant: the points are laid out from the last agent to the first
AgentSeriesReversed(data) ==
    LET agents == data.agent_performance.all_agents
    IN  [i \in 1..Len(agents) |->
            [x |-> agents[Len(agents) + 1 - i].ANSWERED_CALLS,
             y |-> agents[Len(agents) + 1 - i].EFFICIENCY]]

\* createAgentChart: agents.map(agent => ({x: ..., y: ...}))
AgentSeries(data) ==
    LET agents == data.agent_performance.all_agents
    IN  [i \in 1..Len(agents) |->
            [x |-> agents[i].ANSWERED_CALLS, y |-> agents[i].EFFICIENCY]]

\* createHourlyChart: the labels and the two datasets mapped from hourlyData
HourlyLabels(hourlyData) ==
    [i \in 1..Len(hourlyData) |-> ToString(hourlyData[i].HOUR) \o ":00"]

HourlyOffered(hourlyData) ==
    [i \in 1..Len(hourlyData) |-> hourlyData[i].TOTAL_OFFERED]

HourlyAbandonment(hourlyData) ==
    [i \in 1..Len(hourlyData) |-> hourlyData[i].ABANDONMENT_RATE]

---------------------------------------------------------------------------
(* getKpiIcon of the two dialog components *)

AnalysisIconMap ==
    << <<"calls", "phone">>, <<"duration", "schedule">>,
       <<"success", "check_circle">>, <<"missed", "phone_missed">>,
       <<"answered", "call_received">>, <<"outbound", "call_made">>,
       <<"inbound", "call_received">>, <<"average", "trending_up">>,
       <<"total", "analytics">>, <<"rate", "percent">>,
       <<"volume", "volume_up">>, <<"longest", "timer">>,
       <<"shortest", "timer_off">>, <<"failed", "error">>,
       <<"busy", "phone_busy">>, <<"voicemail", "voicemail">>,
       <<"transfer", "call_split">>, <<"hold", "pause_circle">>,
       <<"queue", "queue">>, <<"agent", "person">>,
       <<"customer", "people">>, <<"satisfaction", "sentiment_satisfied">>,
       <<"resolution", "task_alt">>, <<"escalation", "trending_up">>,
       <<"abandoned", "call_end">>, <<"wait", "access_time">>,
       <<"response", "reply">> >>

\* mutant: the map without its eight entries of several words
QueueIconMapWords ==
    << <<"queue", "queue">>, <<"calls", "phone">>, <<"rate", "percent">>,
       <<"time", "schedule">>, <<"wait", "access_time">>,
       <<"handle", "touch_app">>, <<"answered", "call_received">>,
       <<"abandoned", "call_end">>, <<"offered", "phone_in_talk">> >>

QueueIconMap ==
    << <<"total offered", "phone_in_talk">>,
       <<"total answered", "call_received">>,
       <<"total abandoned", "call_end">>,
       <<"answer rate", "check_circle">>,
       <<"abandonment rate", "cancel">>,
       <<"avg wait time", "access_time">>,
       <<"max wait time", "timer">>,
       <<"avg handle time", "schedule">>,
       <<"queue", "queue">>, <<"calls", "phone">>, <<"rate", "percent">>,
       <<"time", "schedule">>, <<"wait", "access_time">>,
       <<"handle", "touch_app">>, <<"answered", "call_received">>,
       <<"abandoned", "call_end">>, <<"offered", "phone_in_talk">> >>

IconMapOf(component) ==
    IF component = "AnalysisDialogComponent" THEN AnalysisIconMap
    ELSE QueueIconMap

\* getKpiIcon(kpiKey): the direct match iconMap[lowerKey] when it is truthy,
\* else the icon of the first entry whose term lowerKey includes, else
\* 'insights'; branch tells which of the three returns was taken
GetKpiIcon(iconMap, kpiKey) ==
    LET lowerKey == ToLowerCase(kpiKey)
        direct == Lookup(iconMap, lowerKey)
        partial == {i \in 1..Len(iconMap) : Includes(lowerKey, iconMap[i][1])}
    IN  IF Truthy(direct)
        THEN [icon |-> direct, branch |-> "direct"]
        ELSE IF partial # {}
        THEN [icon |-> Str(iconMap[CHOOSE i \in partial :
                                    \A j \in partial : i <= j][2]),
              branch |-> "partial"]
        ELSE [icon |-> Str("insights"), branch |-> "default"]

---------------------------------------------------------------------------
(* MetricLabelPipe *)

MetricLabelMap ==
    << <<"total", "Total">>, <<"inbound", "Inbound">>,
       <<"outbound", "Outbound">>, <<"answered_pct", "Answered %">>,
       <<"missed_pct", "Missed %">>, <<"vm_pct", "VM %">>,
       <<"blocked_pct", "Blocked %">>, <<"avg_dur", "Avg">>,
       <<"median_dur", "Median">>, <<"talk_time", "Talk">>,
       <<"longest", "Longest">> >>

\* transform(key): this.map[key] ?? key
MetricLabelTransform(key) ==
    LET label == Lookup(MetricLabelMap, key)
    IN  IF label.type \in {"undefined", "null"} THEN Str(key) ELSE label

---------------------------------------------------------------------------
(* The buttons, the requests and the dialogs *)

Fabs == {"AnalysisFabComponent", "QueueFabComponent"}

RemoveAt(seq, i) == SubSeq(seq, 1, i - 1) \o SubSeq(seq, i + 1, Len(seq))

\* mutant: the observable is subscribed to twice, which sends two requests
FabOpenTwice(fab) ==
    /\ opens < MaxOpens
    /\ opens' = opens + 1
    /\ pending' = pending \o <<fab, fab>>
    /\ UNCHANGED <<failed, docs, received, dialogs, pipeVars, callVars>>

\* open(): one http.get is subscribed to
FabOpen(fab) ==
    /\ opens < MaxOpens
    /\ opens' = opens + 1
    /\ pending' = Append(pending, fab)
    /\ UNCHANGED <<failed, docs, received, dialogs, pipeVars, callVars>>

\* the dialogs opened by button fab
OpenedBy(fab) ==
    {d \in 1..Len(dialogs) :
        (dialogs[d].component = "AnalysisDialogComponent")
            = (fab = "AnalysisFabComponent")}

\* mutant: the service keeps the first document it loaded and hands that
\* same object to every later subscriber
FetchSucceedCached(i, doc) ==
    /\ i \in 1..Len(pending)
    /\ IF OpenedBy(pending[i]) = {}
       THEN LET ref == Len(docs) + 1
            IN  /\ docs' = Append(docs, doc)
                /\ received' = Append(received, doc)
                /\ dialogs' = Append(dialogs,
                     IF pending[i] = "AnalysisFabComponent"
                     THEN AnalysisDialogConstruct(ref, doc)
                     ELSE QueueDialogConstruct(ref, doc))
       ELSE LET ref == dialogs[CHOOSE d \in OpenedBy(pending[i]) : TRUE].data
            IN  /\ UNCHANGED <<docs, received>>
                /\ dialogs' = Append(dialogs,
                     IF pending[i] = "AnalysisFabComponent"
                     THEN AnalysisDialogConstruct(ref, docs[ref])
                     ELSE QueueDialogConstruct(ref, docs[ref]))
    /\ pending' = RemoveAt(pending, i)
    /\ UNCHANGED <<opens, failed, pipeVars, callVars>>

\* The response of request i arrives with a freshly parsed document; the
\* subscriber calls dlg.open, which constructs the dialog component with the
\* document as its data.
FetchSucceed(i, doc) ==
    /\ i \in 1..Len(pending)
    /\ LET ref == Len(docs) + 1
       IN  /\ docs' = Append(docs,
                IF pending[i] = "AnalysisFabComponent"
                THEN AnalysisDataAfter(ref, doc)
                ELSE doc)
           /\ received' = Append(received, doc)
           /\ dialogs' = Append(dialogs,
                IF pending[i] = "AnalysisFabComponent"
                THEN AnalysisDialogConstruct(ref, doc)
                ELSE QueueDialogConstruct(ref, doc))
    /\ pending' = RemoveAt(pending, i)
    /\ UNCHANGED <<opens, failed, pipeVars, callVars>>

\* mutant: a failed request is sent again
FetchFailRetry(i) ==
    /\ i \in 1..Len(pending)
    /\ pending' = Append(RemoveAt(pending, i), pending[i])
    /\ failed' = failed + 1
    /\ UNCHANGED <<opens, docs, received, dialogs, pipeVars, callVars>>

\* The request fails: the subscriber has no error callback, nothing is
\* opened and nothing is requested again.
FetchFail(i) ==
    /\ i \in 1..Len(pending)
    /\ pending' = RemoveAt(pending, i)
    /\ failed' = failed + 1
    /\ UNCHANGED <<opens, docs, received, dialogs, pipeVars, callVars>>

\* the document bound to the data input of the chart component that queue
\* dialog d shows: the dialog's own data
ChartData(d) == dialogs[d].data

\* ngAfterViewInit's timer fires in the chart component of queue dialog d,
\* whose data is the dialog's document: the three charts are created, and
\* createHourlyChart sorts data.service_trends, the array of the document
\* itself, and maps the array sort returns, which is that same array.
ChartsRender(d) ==
    /\ d \in 1..Len(dialogs)
    /\ dialogs[d].component = "QueueDialogComponent"
    /\ ~dialogs[d].raised
    /\ ~dialogs[d].charts.rendered
    /\ LET ref == ChartData(d)
           hourlyData == SortByHour(docs[ref].service_trends)
       IN  /\ docs' = [docs EXCEPT ![ref].service_trends = hourlyData]
           /\ dialogs' = [dialogs EXCEPT ![d].charts =
                [rendered |-> TRUE,
                 waitTime |-> WaitTimeSeries(docs[ref]),
                 agents |-> AgentSeries(docs[ref]),
                 hourlyData |-> [array |-> <<ref, "service_trends">>],
                 labels |-> HourlyLabels(hourlyData),
                 offered |-> HourlyOffered(hourlyData),
                 abandonment |-> HourlyAbandonment(hourlyData)]]
    /\ UNCHANGED <<opens, pending, failed, received, pipeVars, callVars>>

\* no method called yet
NoCall == [fn |-> "none"]

\* dialog d is asked for the icon of a key; a run follows one call
IconResolve(d, kpiKey) ==
    /\ lastCall = NoCall
    /\ d \in 1..Len(dialogs)
    /\ ~dialogs[d].raised
    /\ lastCall' = [fn |-> "getKpiIcon",
                    component |-> dialogs[d].component,
                    key |-> kpiKey,
                    result |-> GetKpiIcon(IconMapOf(dialogs[d].component),
                                          kpiKey)]
    /\ UNCHANGED <<sysVars, pipeVars>>

\* the label pipe is applied to a key; a run follows one call
LabelTransform(key) ==
    /\ lastCall = NoCall
    /\ lastCall' = [fn |-> "MetricLabelPipe.transform",
                    key |-> key,
                    result |-> MetricLabelTransform(key)]
    /\ UNCHANGED <<sysVars, pipeVars>>

---------------------------------------------------------------------------
(* Documents the server may answer with *)

Summaries == {Undefined, Str(""), Str("Queue is busy.")}

\* kpi.longest as an object, with or without its to_name
LongestObjects ==
    {Obj([duration |-> d, from_name |-> f, to_name |-> t]) :
        d \in {Str("0 days 00:29:46"), Str("1:05:09")},
        f \in {Str("A"), Str("Agent Name")},
        t \in {Str("B")}}
    \cup
    {Obj([duration |-> d, from_name |-> f]) :
        d \in {Str("0 days 00:29:46")}, f \in {Str("A")}}

KpiValues(key) ==
    CASE key = "total" -> {Num(121100)}
      [] key = "answered_pct" -> {Num(8240)}
      [] key = "avg_dur" -> {Str("0 days 00:00:26")}
      [] key = "longest" ->
            {Num(4200), Null, Str("0:29:46")} \cup LongestObjects

KpiKeys == {"total", "answered_pct", "avg_dur", "longest"}

\* every kpi object over a subset of the keys
Kpis ==
    UNION {
        {Obj(f) : f \in {g \in [K -> UNION {KpiValues(k) : k \in KpiKeys}] :
                            \A k \in K : g[k] \in KpiValues(k)}} :
        K \in SUBSET KpiKeys}

CallDocs == {[kpi |-> kpi, summary |-> summary] :
                kpi \in Kpis, summary \in Summaries}

IsoString(y, m, d, time) ==
    PadStart(ToString(y), 4, "0") \o "-" \o PadStart(ToString(m), 2, "0")
        \o "-" \o PadStart(ToString(d), 2, "0") \o "T" \o time

ValidDateTimes ==
    {Str(IsoString(y, m, d, time)) :
        y \in {2024, 2025}, m \in {2, 7, 12}, d \in {1, 9, 16},
        time \in {"00:00:00", "13:30:00", "23:59:59"}}
    \cup {Str("2024-02-29T12:00:00"), Str("2024-12-31T23:59:59"),
          Str("2025-07-16T11:30:00")}

MalformedDateTimes ==
    {Str(""), Str("not-a-date"), Str("2025-13-01T00:00:00")}

DateTimes == ValidDateTimes \cup MalformedDateTimes

Interval(datetime) ==
    Obj([datetime |-> datetime,
         answered_calls |-> Str("3"),
         abandoned_calls |-> Str("2")])

\* queue_metrics with every field but the three the arguments decide
QueueMetrics(handle, peak, worst) ==
    LET base == [total_offered |-> Str("15"),
                 total_answered |-> Str("9"),
                 total_abandoned |-> Str("6"),
                 answer_rate |-> Num(6000),
                 abandonment_rate |-> Num(4000),
                 avg_wait_time_sec |-> Num(3500),
                 max_wait_time_sec |-> Num(12050)]
        some == {<<"avg_handle_time_sec", handle>>,
                 <<"peak_interval", peak>>,
                 <<"worst_abandon_interval", worst>>}
        given == {p \in some : p[2] # Undefined}
        names == DOMAIN base \cup {p[1] : p \in given}
    IN  Obj([n \in names |->
                IF n \in DOMAIN base THEN base[n]
                ELSE (CHOOSE p \in given : p[1] = n)[2]])

Agents == <<[AGENT |-> "Ann", ANSWERED_CALLS |-> 5, EFFICIENCY |-> 2],
            [AGENT |-> "Bob", ANSWERED_CALLS |-> 4, EFFICIENCY |-> 3]>>

Buckets == {[HOUR |-> h, TOTAL_OFFERED |-> n, ABANDONMENT_RATE |-> 10 * n] :
                h \in {9, 12, 14}, n \in {1, 2}}

RECURSIVE SeqsOfLen(_, _)
SeqsOfLen(S, n) ==
    IF n = 0 THEN {<<>>}
    ELSE {Append(q, x) : q \in SeqsOfLen(S, n - 1), x \in S}

SeqsUpTo(S, n) == UNION {SeqsOfLen(S, k) : k \in 0..n}

QueueDoc(metrics, trends, summary) ==
    [queue_metrics |-> metrics,
     service_trends |-> trends,
     agent_performance |-> [all_agents |-> Agents],
     summary |-> summary]

SampleTrends == <<[HOUR |-> 14, TOTAL_OFFERED |-> 1, ABANDONMENT_RATE |-> 10],
                  [HOUR |-> 9, TOTAL_OFFERED |-> 2, ABANDONMENT_RATE |-> 20],
                  [HOUR |-> 12, TOTAL_OFFERED |-> 1, ABANDONMENT_RATE |-> 10]>>

SamplePeak == Interval(Str("2025-07-09T13:30:00"))
SampleWorst == Interval(Str("2025-07-16T11:30:00"))

\* the handle time a number, a string, or missing
HandleTimes == {Num(1700), Num(26725), Num(1734), Str("17.0"), Undefined}

\* documents that differ in the fields a missing or ill-typed value of which
\* the constructor may trip over
QueueDocsFields ==
    {QueueDoc(QueueMetrics(handle, peak, worst), SampleTrends, summary) :
        handle \in HandleTimes,
        peak \in {SamplePeak, Undefined, Interval(Str("not-a-date")),
                  Interval(Undefined)},
        worst \in {SampleWorst, Undefined, Interval(Str("not-a-date")),
                   Interval(Undefined)},
        summary \in Summaries}

\* documents that differ in the two datetime strings
QueueDocsDates ==
    {QueueDoc(QueueMetrics(Num(1700), Interval(p), Interval(w)),
              SampleTrends, Str("Queue is busy.")) :
        p \in DateTimes \cup {Undefined}, w \in DateTimes \cup {Undefined}}

\* documents that differ in service_trends
QueueDocsTrends ==
    {QueueDoc(QueueMetrics(Num(1700), SamplePeak, SampleWorst),
              trends, Str("Queue is busy.")) :
        trends \in SeqsUpTo(Buckets, MaxTrends)}

AgentStats ==
    {[AGENT |-> a, ANSWERED_CALLS |-> c, EFFICIENCY |-> e] :
        a \in {"Ann", "Bob"}, c \in {4, 5}, e \in {2}}

\* documents that differ in all_agents
QueueDocsAgents ==
    {[QueueDoc(QueueMetrics(Num(1700), SamplePeak, SampleWorst),
               SampleTrends, Str("Queue is busy."))
        EXCEPT !.agent_performance = [all_agents |-> agents]] :
        agents \in SeqsUpTo(AgentStats, MaxAgents)}

\* obj with the fields of more written over it; a field given as Undefined
\* is absent
WithFields(obj, more) ==
    LET names == {n \in DOMAIN obj.fields \cup DOMAIN more :
                    IF n \in DOMAIN more THEN more[n] # Undefined ELSE TRUE}
    IN  Obj([n \in names |->
                IF n \in DOMAIN more THEN more[n] ELSE obj.fields[n]])

\* fields of the QueueReportJSON interface that the dialog does not show
OtherMetrics == [total_overflowed |-> Str("0"), overflow_rate |-> Num(0)]

\* documents that differ in the values of queue_metrics and in the fields it
\* holds beside the eight that are shown; the handle time is a number
QueueDocsMetrics ==
    {QueueDoc(WithFields(QueueMetrics(handle, SamplePeak, SampleWorst),
                         IF extra
                         THEN [n \in {"total_offered", "answer_rate",
                                      "max_wait_time_sec"}
                                  \cup DOMAIN OtherMetrics |->
                                 CASE n = "total_offered" -> offered
                                   [] n = "answer_rate" -> rate
                                   [] n = "max_wait_time_sec" -> wait
                                   [] OTHER -> OtherMetrics[n]]
                         ELSE [total_offered |-> offered,
                               answer_rate |-> rate,
                               max_wait_time_sec |-> wait]),
              SampleTrends, Str("Queue is busy.")) :
        handle \in {Num(1700), Num(26725), Num(1734), Num(0), Num(999)},
        offered \in {Str("15"), Num(163400), Undefined},
        rate \in {Num(6000), Num(8592)},
        wait \in {Num(12050), Num(4500)},
        extra \in BOOLEAN}

\* a few documents of each kind, for runs with several requests
SampleCallDocs ==
    {[kpi |-> Obj([total |-> Num(121100),
                   longest |-> Obj([duration |-> Str("0 days 00:29:46"),
                                    from_name |-> Str("A"),
                                    to_name |-> Str("B")])]),
      summary |-> Str("Queue is busy.")],
     [kpi |-> Obj([total |-> Num(121100), longest |-> Num(4200)]),
      summary |-> Undefined]}

SampleQueueDocs ==
    {QueueDoc(QueueMetrics(Num(1700), SamplePeak, SampleWorst),
              SampleTrends, Str("Queue is busy.")),
     QueueDoc(QueueMetrics(Num(26725), SamplePeak, SamplePeak),
              SubSeq(SampleTrends, 2, 3), Undefined),
     QueueDoc(QueueMetrics(Undefined, SamplePeak, SampleWorst),
              SampleTrends, Str(""))}

SampleDocs(fab) ==
    IF fab = "AnalysisFabComponent" THEN SampleCallDocs ELSE SampleQueueDocs

---------------------------------------------------------------------------
(* Inputs of the duration pipe *)

PipeAlphabet == {"1", ":", " "}

RECURSIVE StringsOfLen(_, _)
StringsOfLen(alphabet, n) ==
    IF n = 0 THEN {""}
    ELSE {s \o c : s \in StringsOfLen(alphabet, n - 1), c \in alphabet}

StringsUpTo(alphabet, n) == UNION {StringsOfLen(alphabet, k) : k \in 0..n}

\* durations as the report generator writes them, and one that is none
PipeExamples == {"0 days 00:03:15", "0 days 00:29:46", "1:05:09",
                 "123:45:07", "not-a-duration"}

---------------------------------------------------------------------------
(* Keys handed to getKpiIcon and to the label pipe *)

UpperChar(c) ==
    IF \E i \in 1..Len(LowerCase) : At(LowerCase, i) = c
    THEN At(UpperCase, CHOOSE i \in 1..Len(LowerCase) : At(LowerCase, i) = c)
    ELSE c

\* s with the first letter of each of its words a capital, as the keys of
\* the queue dialog's displayKpi are written
RECURSIVE TitleFrom(_, _)
TitleFrom(s, atStart) ==
    IF s = "" THEN ""
    ELSE (IF atStart THEN UpperChar(At(s, 1)) ELSE At(s, 1))
            \o TitleFrom(SubSeq(s, 2, Len(s)), At(s, 1) = " ")

TitleCase(s) == TitleFrom(s, TRUE)

RECURSIVE AllCapitals(_)
AllCapitals(s) ==
    IF s = "" THEN ""
    ELSE UpperChar(At(s, 1)) \o AllCapitals(SubSeq(s, 2, Len(s)))

TermsOf(map) == {map[i][1] : i \in 1..Len(map)}

IconTerms == TermsOf(AnalysisIconMap) \cup TermsOf(QueueIconMap)

\* the terms of one word
Words == {t \in IconTerms : ~Includes(t, " ")}

\* keys that are in no map
UnknownKeys == {"", "mos", "jitter", "vm_pct", "avg_dur", "median_dur"}

\* every term as it is, capitalised and in capitals; every term after and
\* before another word; the property names of Object.prototype; keys that
\* include no term
IconKeys ==
    IconTerms
    \cup {TitleCase(t) : t \in IconTerms}
    \cup {AllCapitals(t) : t \in IconTerms}
    \cup {a \o "_" \o b : a \in Words, b \in Words}
    \cup ObjectPrototypeNames
    \cup {TitleCase(n) : n \in ObjectPrototypeNames}
    \cup UnknownKeys

\* every metric key as it is, in another case, as a part of a longer key
\* and cut short; the icon terms; the property names of Object.prototype
LabelKeys ==
    TermsOf(MetricLabelMap)
    \cup {TitleCase(k) : k \in TermsOf(MetricLabelMap)}
    \cup {AllCapitals(k) : k \in TermsOf(MetricLabelMap)}
    \cup {k \o "_x" : k \in TermsOf(MetricLabelMap)}
    \cup {"x_" \o k : k \in TermsOf(MetricLabelMap)}
    \cup {SubSeq(k, 1, Len(k) - 1) : k \in TermsOf(MetricLabelMap)}
    \cup IconTerms
    \cup ObjectPrototypeNames
    \cup UnknownKeys \cup {"label"}

---------------------------------------------------------------------------
(* Specifications *)

PipeIdle == pipeIn = "" /\ pipeOut = "" /\ pipeCalls = 0

\* nothing clicked yet
Init ==
    /\ opens = 0
    /\ pending = <<>>
    /\ failed = 0
    /\ docs = <<>>
    /\ received = <<>>
    /\ dialogs = <<>>
    /\ PipeIdle
    /\ lastCall = NoCall

\* one button clicked, its request in flight
InitPending(fab) ==
    /\ opens = 1
    /\ pending = <<fab>>
    /\ failed = 0
    /\ docs = <<>>
    /\ received = <<>>
    /\ dialogs = <<>>
    /\ PipeIdle
    /\ lastCall = NoCall

Next ==
    \/ \E fab \in Fabs : FabOpen(fab)
    \/ \E i \in 1..Len(pending) :
          \E doc \in SampleDocs(pending[i]) : FetchSucceed(i, doc)
    \/ \E i \in 1..Len(pending) : FetchFail(i)
    \/ \E d \in 1..Len(dialogs) : ChartsRender(d)

\* the whole widget, with a few documents
Spec == Init /\ [][Next]_vars

\* the call report dialog built from every call document
NextCall == \E doc \in CallDocs : FetchSucceed(1, doc)

SpecCall == InitPending("AnalysisFabComponent") /\ [][NextCall]_vars

\* the queue report dialog built from documents with missing or ill-typed
\* fields
NextQueue == \E doc \in QueueDocsFields : FetchSucceed(1, doc)

SpecQueue == InitPending("QueueFabComponent") /\ [][NextQueue]_vars

\* the queue report dialog built from documents with every handle time a
\* number and differing metrics
NextMetrics == \E doc \in QueueDocsMetrics : FetchSucceed(1, doc)

SpecMetrics == InitPending("QueueFabComponent") /\ [][NextMetrics]_vars

\* the queue report dialog built from every pair of datetime strings
NextDates == \E doc \in QueueDocsDates : FetchSucceed(1, doc)

SpecDates == InitPending("QueueFabComponent") /\ [][NextDates]_vars

\* the queue charts rendered over every service_trends array and every
\* all_agents array
NextCharts ==
    \/ \E doc \in QueueDocsTrends \cup QueueDocsAgents : FetchSucceed(1, doc)
    \/ ChartsRender(1)

SpecCharts == InitPending("QueueFabComponent") /\ [][NextCharts]_vars

\* either dialog built from a sample document, then asked for the icon of
\* every key
InitEither == \E fab \in Fabs : InitPending(fab)

\* the keys of the displayKpi dialog d built, for each of which the dialog
\* shows an icon
KeysShown(d) ==
    IF dialogs[d].raised THEN {} ELSE DOMAIN dialogs[d].displayKpi

NextIcons ==
    \/ \E i \in 1..Len(pending) :
          \E doc \in SampleDocs(pending[i]) : FetchSucceed(i, doc)
    \/ \E d \in 1..Len(dialogs) : \E kpiKey \in IconKeys \cup KeysShown(d) :
          IconResolve(d, kpiKey)

SpecIcons == InitEither /\ [][NextIcons]_vars

\* the label pipe applied to every key
NextLabels == \E key \in LabelKeys : LabelTransform(key)

SpecLabels == Init /\ [][NextLabels]_vars

\* the duration pipe applied to a string, then to its own output
InitPipe ==
    /\ opens = 0
    /\ pending = <<>>
    /\ failed = 0
    /\ docs = <<>>
    /\ received = <<>>
    /\ dialogs = <<>>
    /\ pipeIn \in StringsUpTo(PipeAlphabet, MaxLen) \cup PipeExamples
    /\ pipeOut = ""
    /\ pipeCalls = 0
    /\ lastCall = NoCall

PipeTransform ==
    /\ pipeCalls < MaxApply
    /\ pipeOut' = DurationTransform(IF pipeCalls = 0 THEN pipeIn ELSE pipeOut)
    /\ pipeCalls' = pipeCalls + 1
    /\ UNCHANGED <<pipeIn, sysVars, callVars>>

NextPipe == PipeTransform

SpecPipe == InitPipe /\ [][NextPipe]_vars

\* kpi.longest objects whose fields are durations, names, and names that
\* look like durations, with or without a to_name
ComposedFrom ==
    {Obj([duration |-> d, from_name |-> f, to_name |-> t]) :
        d \in {Str("0 days 00:29:46"), Str("1:05:09"), Str("00:29:46"),
               Str("n/a")},
        f \in {Str("A"), Str("Agent Name"), Str("1:05:09")},
        t \in {Str("B"), Str(""), Str("12:00:00"), Str("Desk (2)")}}
    \cup
    {Obj([duration |-> d, from_name |-> f]) :
        d \in {Str("0 days 00:29:46"), Str("1:05:09"), Str("00:29:46"),
               Str("n/a")},
        f \in {Str("A"), Str("Agent Name"), Str("1:05:09")}}

\* the duration pipe applied to the string the call dialog composes for
\* displayKpi.longest
InitComposed ==
    /\ opens = 0
    /\ pending = <<>>
    /\ failed = 0
    /\ docs = <<>>
    /\ received = <<>>
    /\ dialogs = <<>>
    /\ pipeIn \in {ComposeLongest(l).s : l \in ComposedFrom}
    /\ pipeOut = ""
    /\ pipeCalls = 0
    /\ lastCall = NoCall

SpecComposed == InitComposed /\ [][NextPipe]_vars

---------------------------------------------------------------------------
(* Properties of the dialog constructors *)

AnalysisDialogs ==
    {d \in 1..Len(dialogs) : dialogs[d].component = "AnalysisDialogComponent"}

QueueDialogs ==
    {d \in 1..Len(dialogs) : dialogs[d].component = "QueueDialogComponent"}

\* the document dialog d was constructed from, as it arrived
DataOf(d) == received[dialogs[d].data]

IsString(v) == v.type = "string"

\* C3: no document makes a constructor raise: every dialog is constructed
\* and has its view model.
C3_NeverRaises == \A d \in 1..Len(dialogs) : ~dialogs[d].raised

\* C9: when kpi.longest is an object {duration, from_name, to_name},
\* displayKpi.longest is "<duration> (<from_name> → <to_name>)" with the
\* duration as it is in the document.
C9_LongestComposed ==
    \A d \in AnalysisDialogs :
        LET l == Get(DataOf(d).kpi, "longest")
        IN  (/\ l.type = "object"
             /\ IsString(Get(l, "duration"))
             /\ IsString(Get(l, "from_name"))
             /\ IsString(Get(l, "to_name")))
            => dialogs[d].displayKpi["longest"]
                    = Str(Get(l, "duration").s \o " (" \o Get(l, "from_name").s
                            \o " → " \o Get(l, "to_name").s \o ")")

\* the example of the specification
C9_Witness ==
    \E d \in AnalysisDialogs :
        /\ Get(DataOf(d).kpi, "longest")
                = Obj([duration |-> Str("0 days 00:29:46"),
                       from_name |-> Str("A"), to_name |-> Str("B")])
        /\ dialogs[d].displayKpi["longest"] = Str("0 days 00:29:46 (A → B)")

\* C10: displayKpi has exactly the keys of report.kpi, and every entry
\* other than an object-valued longest is the document's value.
C10_ScalarsVerbatim ==
    \A d \in AnalysisDialogs :
        LET kpi == DataOf(d).kpi.fields
            display == dialogs[d].displayKpi
        IN  /\ DOMAIN display = DOMAIN kpi
            /\ \A k \in DOMAIN kpi :
                    (k # "longest" \/ kpi[k].type # "object")
                        => display[k] = kpi[k]

\* a scalar longest, and a key the document does not have
C10_Witness ==
    \E d \in AnalysisDialogs :
        /\ "longest" \in DOMAIN DataOf(d).kpi.fields
        /\ DataOf(d).kpi.fields["longest"] = Num(4200)
        /\ dialogs[d].displayKpi["longest"] = Num(4200)
        /\ "avg_dur" \notin DOMAIN dialogs[d].displayKpi
        /\ "total" \in DOMAIN dialogs[d].displayKpi

---------------------------------------------------------------------------
(* Properties of calculateDateRange, stated on the datetime strings *)

PeakOf(d) == Get(Get(DataOf(d).queue_metrics, "peak_interval"), "datetime")

WorstOf(d) ==
    Get(Get(DataOf(d).queue_metrics, "worst_abandon_interval"), "datetime")

\* the calendar day and the time of day written in "YYYY-MM-DDTHH:MM:SS"
DayWritten(v) ==
    ToInt(SubSeq(v.s, 1, 4)) * 10000 + ToInt(SubSeq(v.s, 6, 7)) * 100
        + ToInt(SubSeq(v.s, 9, 10))

TimeWritten(v) ==
    ToInt(SubSeq(v.s, 12, 13)) * 10000 + ToInt(SubSeq(v.s, 15, 16)) * 100
        + ToInt(SubSeq(v.s, 18, 19))

WrittenBefore(v, w) ==
    \/ DayWritten(v) < DayWritten(w)
    \/ DayWritten(v) = DayWritten(w) /\ TimeWritten(v) < TimeWritten(w)

\* "<Mon> <Day>, <Year>" of the day written in the string
DayFormatted(v) ==
    MonthNames[ToInt(SubSeq(v.s, 6, 7))] \o " "
        \o ToString(ToInt(SubSeq(v.s, 9, 10))) \o ", "
        \o ToString(ToInt(SubSeq(v.s, 1, 4)))

Contains(s, part) ==
    \E i \in 1..(Len(s) - Len(part) + 1) :
        SubSeq(s, i, i + Len(part) - 1) = part

\* the queue dialogs whose constructor did not raise
Built == {d \in QueueDialogs : ~dialogs[d].raised}

\* C4: two valid timestamps on different calendar days give
\* "<start> - <end>", start the earlier and end the later of the two,
\* whichever field holds the earlier one.
C4_EarlierIsStart ==
    \A d \in Built :
        LET p == PeakOf(d)
            w == WorstOf(d)
        IN  (p \in ValidDateTimes /\ w \in ValidDateTimes
                /\ DayWritten(p) # DayWritten(w))
            => dialogs[d].dateRange =
                    IF WrittenBefore(p, w)
                    THEN DayFormatted(p) \o " - " \o DayFormatted(w)
                    ELSE DayFormatted(w) \o " - " \o DayFormatted(p)

\* the example of the specification with the two fields exchanged
C4_Witness ==
    \E d \in Built :
        /\ PeakOf(d) = Str("2025-07-16T11:30:00")
        /\ WorstOf(d) = Str("2025-07-09T13:30:00")
        /\ dialogs[d].dateRange = "Jul 9, 2025 - Jul 16, 2025"

\* C5: two valid timestamps on the same calendar day, equal or not, give
\* that one formatted date and no "<start> - <end>" pair.
C5_SameDaySingle ==
    \A d \in Built :
        LET p == PeakOf(d)
            w == WorstOf(d)
        IN  (p \in ValidDateTimes /\ w \in ValidDateTimes
                /\ DayWritten(p) = DayWritten(w))
            => /\ dialogs[d].dateRange = DayFormatted(p)
               /\ ~Contains(dialogs[d].dateRange, " - ")

\* the tie: the two timestamps are equal
C5_Witness ==
    \E d \in Built :
        /\ PeakOf(d) = Str("2025-07-09T13:30:00")
        /\ WorstOf(d) = PeakOf(d)
        /\ dialogs[d].dateRange = "Jul 9, 2025"

\* C6 as claimed: a malformed datetime string in either field gives an
\* invalid-date representation as dateRange.
C6_MalformedGivesInvalid ==
    \A d \in Built :
        (PeakOf(d) \in MalformedDateTimes \/ WorstOf(d) \in MalformedDateTimes)
            => Contains(dialogs[d].dateRange, "Invalid Date")

\* C6 amended: no malformed datetime string makes the constructor raise; a
\* malformed worst_abandon_interval.datetime gives "Invalid Date", and a
\* malformed peak_interval.datetime beside a valid
\* worst_abandon_interval.datetime gives the formatted worst_abandon date
\* alone.
C6_MalformedByField ==
    \A d \in QueueDialogs :
        LET p == PeakOf(d)
            w == WorstOf(d)
        IN  /\ (p \in MalformedDateTimes \/ w \in MalformedDateTimes)
                    => ~dialogs[d].raised
            /\ w \in MalformedDateTimes
                    => dialogs[d].dateRange = "Invalid Date"
            /\ (p \in MalformedDateTimes /\ w \in ValidDateTimes)
                    => dialogs[d].dateRange = DayFormatted(w)

\* a malformed peak datetime beside a valid worst_abandon datetime
C6_Witness ==
    \E d \in Built :
        /\ PeakOf(d) = Str("not-a-date")
        /\ WorstOf(d) = Str("2025-07-16T11:30:00")
        /\ dialogs[d].dateRange = "Jul 16, 2025"

---------------------------------------------------------------------------
(* Properties of the hourly chart adapter *)

\* the queue dialogs whose charts have been created
Rendered ==
    {d \in QueueDialogs : ~dialogs[d].raised /\ dialogs[d].charts.rendered}

\* the array createHourlyChart maps its labels and datasets from
HourlyDataOf(d) ==
    LET array == dialogs[d].charts.hourlyData.array
    IN  docs[array[1]].service_trends

HoursOfDay == 0..23

BucketsAt(trends, h) ==
    LET AtHour(b) == b.HOUR = h
    IN  SelectSeq(trends, AtHour)

\* C1: the adapter does not mutate its input: after createHourlyChart the
\* elements of the document's service_trends are in the order they arrived
\* in.  (The array the charts are mapped from is the document's own array,
\* charts.hourlyData.array, so the order of the one is the order of the
\* other.)
C1_InputNotMutated ==
    \A d \in Rendered :
        docs[dialogs[d].data].service_trends
            = received[dialogs[d].data].service_trends

\* C2: the sorted array holds the buckets of the input in non-decreasing
\* HOUR, and the buckets of one HOUR in the order the input had them.
C2_SortedStable ==
    \A d \in Rendered :
        LET input == received[dialogs[d].data].service_trends
            output == HourlyDataOf(d)
        IN  /\ Len(output) = Len(input)
            /\ \A i \in 1..(Len(output) - 1) :
                    output[i].HOUR <= output[i + 1].HOUR
            /\ \A h \in HoursOfDay :
                    BucketsAt(output, h) = BucketsAt(input, h)

\* an unsorted input in which two different buckets have the same HOUR
C2_Witness ==
    \E d \in Rendered :
        LET input == received[dialogs[d].data].service_trends
        IN  /\ HourlyDataOf(d) # input
            /\ \E i, j \in 1..Len(input) :
                    /\ i < j
                    /\ input[i].HOUR = input[j].HOUR
                    /\ input[i] # input[j]

---------------------------------------------------------------------------
(* Properties of the duration pipe *)

\* v ends in <one or more digits>:<two digits>:<two digits>
EndsWithHMS(v) ==
    LET n == Len(v)
    IN  /\ n >= 7
        /\ IsDigit(At(v, n - 6))
        /\ At(v, n - 5) = ":"
        /\ IsDigit(At(v, n - 4)) /\ IsDigit(At(v, n - 3))
        /\ At(v, n - 2) = ":"
        /\ IsDigit(At(v, n - 1)) /\ IsDigit(At(v, n))

\* the whole run of digits that ends right before the ":MM:SS" tail
HoursOf(v) ==
    LET n == Len(v)
        j == CHOOSE x \in 1..(n - 6) :
                /\ AllDigits(SubSeq(v, x, n - 6))
                /\ (x = 1 \/ ~IsDigit(At(v, x - 1)))
    IN  SubSeq(v, j, n - 6)

\* C7: when the input ends in H+:MM:SS the result is the hours, left-padded
\* with "0" to at least two digits, followed by ":MM:SS", with everything
\* before the hours dropped; otherwise the result is the input unchanged.
C7_DurationFormat ==
    pipeCalls = 1 =>
        IF EndsWithHMS(pipeIn)
        THEN LET h == HoursOf(pipeIn)
                 hh == IF Len(h) = 1 THEN "0" \o h ELSE h
             IN  pipeOut = hh \o SubSeq(pipeIn, Len(pipeIn) - 5, Len(pipeIn))
        ELSE pipeOut = pipeIn

\* a one-digit hour after a prefix: the prefix is dropped and the hour padded
C7_Witness ==
    /\ pipeCalls = 1
    /\ EndsWithHMS(pipeIn)
    /\ Len(HoursOf(pipeIn)) = 1
    /\ Len(pipeIn) > 7
    /\ At(pipeOut, 1) = "0"
    /\ Len(pipeOut) = 8

\* C8: the pipe is idempotent: applying it to its own output returns that
\* output.
C8_Idempotent == [][pipeCalls >= 1 => pipeOut' = pipeOut]_vars

\* the pipe was applied twice to an input that its first application changed
C8_Witness ==
    /\ pipeCalls = 2
    /\ EndsWithHMS(pipeIn)
    /\ pipeOut # pipeIn

---------------------------------------------------------------------------
(* Properties of the queue report's displayKpi *)

EndsWith(s, suffix) ==
    /\ Len(s) >= Len(suffix)
    /\ SubSeq(s, Len(s) - Len(suffix) + 1, Len(s)) = suffix

\* s without its last n characters
DropLast(s, n) == SubSeq(s, 1, Len(s) - n)

\* s is digits, a point and one digit, and is the tenth nearest to the
\* number of hundredths h
IsNearestTenth(s, h) ==
    LET n == Len(s)
    IN  /\ n >= 3
        /\ At(s, n - 1) = "."
        /\ IsDigit(At(s, n))
        /\ AllDigits(SubSeq(s, 1, n - 2))
        /\ LET tenths == 10 * ToInt(SubSeq(s, 1, n - 2)) + ToInt(At(s, n))
           IN  10 * tenths - h \in -4..5

\* the documents whose queue_metrics the constructor can build from: the
\* handle time is a number and both intervals are there
MetricsUsable(qm) ==
    /\ Get(qm, "avg_handle_time_sec").type = "number"
    /\ CanRead(Get(qm, "peak_interval"))
    /\ CanRead(Get(qm, "worst_abandon_interval"))

\* C11: displayKpi of the queue dialog has exactly the eight keys, whatever
\* other fields queue_metrics holds: the three counts are the values of
\* queue_metrics unchanged, the two rates end in "%", the three times end in
\* "s", and Avg Handle Time has exactly one decimal place.
C11_EightKeys ==
    \A d \in QueueDialogs :
        LET qm == DataOf(d).queue_metrics
        IN  MetricsUsable(qm) =>
              /\ ~dialogs[d].raised
              /\ LET kpi == dialogs[d].displayKpi
                 IN  /\ DOMAIN kpi =
                          {"Total Offered", "Total Answered",
                           "Total Abandoned", "Answer Rate",
                           "Abandonment Rate", "Avg Wait Time",
                           "Max Wait Time", "Avg Handle Time"}
                     /\ kpi["Total Offered"] = Get(qm, "total_offered")
                     /\ kpi["Total Answered"] = Get(qm, "total_answered")
                     /\ kpi["Total Abandoned"] = Get(qm, "total_abandoned")
                     /\ \A p \in {<<"Answer Rate", "answer_rate", "%">>,
                                  <<"Abandonment Rate", "abandonment_rate",
                                    "%">>,
                                  <<"Avg Wait Time", "avg_wait_time_sec",
                                    "s">>,
                                  <<"Max Wait Time", "max_wait_time_sec",
                                    "s">>} :
                            /\ IsString(kpi[p[1]])
                            /\ EndsWith(kpi[p[1]].s, p[3])
                            /\ DropLast(kpi[p[1]].s, 1) =
                                  TemplateString(Get(qm, p[2]))
                     /\ IsString(kpi["Avg Handle Time"])
                     /\ EndsWith(kpi["Avg Handle Time"].s, "s")
                     /\ IsNearestTenth(
                            DropLast(kpi["Avg Handle Time"].s, 1),
                            Get(qm, "avg_handle_time_sec").h)

\* a handle time of 17.0 is shown as "17.0s" beside a rate of 85.92 shown as
\* "85.92%", in a document whose queue_metrics has fields that are not shown
C11_Witness ==
    \E d \in QueueDialogs :
        LET qm == DataOf(d).queue_metrics
        IN  /\ ~dialogs[d].raised
            /\ Get(qm, "avg_handle_time_sec") = Num(1700)
            /\ Get(qm, "total_overflowed") # Undefined
            /\ dialogs[d].displayKpi["Avg Handle Time"] = Str("17.0s")
            /\ dialogs[d].displayKpi["Answer Rate"] = Str("85.92%")
            /\ dialogs[d].displayKpi["Total Offered"] = Num(163400)

---------------------------------------------------------------------------
(* Properties of getKpiIcon and of the label pipe *)

\* a and b are the same letter, in whichever case
SameLetter(a, b) ==
    \/ a = b
    \/ \E i \in 1..Len(UpperCase) :
          {a, b} = {At(UpperCase, i), At(LowerCase, i)}

\* a and b differ at most in the case of their letters
SameButCase(a, b) ==
    /\ Len(a) = Len(b)
    /\ \A i \in 1..Len(a) : SameLetter(At(a, i), At(b, i))

IconCalled == lastCall.fn = "getKpiIcon"

\* the entries of the map of the component getKpiIcon was called on
MapCalled == IconMapOf(lastCall.component)

\* C12: in both variants, a key that is a term of the map but for the case of
\* its letters resolves to that term's icon, also when another term of the
\* map is a part of the key.
C12_ExactMatchFirst ==
    IconCalled =>
        \A i \in 1..Len(MapCalled) :
            SameButCase(lastCall.key, MapCalled[i][1]) =>
                lastCall.result.icon = Str(MapCalled[i][2])

\* "Answer Rate" on the queue dialog: the term 'rate' is a part of the key
\* and the icon is that of 'answer rate'
C12_Witness ==
    /\ IconCalled
    /\ lastCall.component = "QueueDialogComponent"
    /\ lastCall.key = "Answer Rate"
    /\ \E i \in 1..Len(MapCalled) :
          /\ MapCalled[i] = <<"rate", "percent">>
          /\ Contains("answer rate", MapCalled[i][1])
    /\ lastCall.result.icon = Str("check_circle")

\* the terms of the map that are a part of the key but for the case of
\* letters
PartsOf(key, map) ==
    {i \in 1..Len(map) :
        \E j \in 1..(Len(key) - Len(map[i][1]) + 1) :
            SameButCase(SubSeq(key, j, j + Len(map[i][1]) - 1), map[i][1])}

\* C13: in both variants, a key that is no term of the map resolves to the
\* icon of the first term, in insertion order, that is a part of the
\* lower-cased key, and to "insights" when no term is.
C13_PartialThenDefault ==
    IconCalled =>
        LET parts == PartsOf(lastCall.key, MapCalled)
        IN  (\A i \in 1..Len(MapCalled) :
                ~SameButCase(lastCall.key, MapCalled[i][1]))
            => IF parts # {}
               THEN lastCall.result.icon =
                      Str(MapCalled[CHOOSE i \in parts :
                                       \A j \in parts : i <= j][2])
               ELSE lastCall.result.icon = Str("insights")

LabelCalled == lastCall.fn = "MetricLabelPipe.transform"

\* C14: the label of a key that is, letter for letter, one of the known
\* metric keys is the label the map gives it; the label of every other
\* string is that string.
C14_LabelOrKey ==
    LabelCalled =>
        IF \E i \in 1..Len(MetricLabelMap) :
              MetricLabelMap[i][1] = lastCall.key
        THEN \E i \in 1..Len(MetricLabelMap) :
                /\ MetricLabelMap[i][1] = lastCall.key
                /\ lastCall.result = Str(MetricLabelMap[i][2])
        ELSE lastCall.result = Str(lastCall.key)

---------------------------------------------------------------------------
(* Properties of the chart series *)

\* C15: the labels, the TOTAL_OFFERED series and the ABANDONMENT_RATE series
\* are as long as the sorted hourly array and at every index come from the
\* bucket at that index; the agent series has one point (ANSWERED CALLS,
\* EFFICIENCY) for each agent of all_agents, in the order of the document.
C15_SeriesAligned ==
    \A d \in Rendered :
        LET charts == dialogs[d].charts
            hourly == HourlyDataOf(d)
            agents == DataOf(d).agent_performance.all_agents
        IN  /\ Len(charts.labels) = Len(hourly)
            /\ Len(charts.offered) = Len(hourly)
            /\ Len(charts.abandonment) = Len(hourly)
            /\ \A i \in 1..Len(hourly) :
                  /\ charts.labels[i] = ToString(hourly[i].HOUR) \o ":00"
                  /\ charts.offered[i] = hourly[i].TOTAL_OFFERED
                  /\ charts.abandonment[i] = hourly[i].ABANDONMENT_RATE
            /\ Len(charts.agents) = Len(agents)
            /\ \A i \in 1..Len(agents) :
                  /\ charts.agents[i].x = agents[i].ANSWERED_CALLS
                  /\ charts.agents[i].y = agents[i].EFFICIENCY

\* three buckets that arrived out of order are charted in HOUR order, and
\* three agents whose answered calls are not in order keep their places
C15_Witness ==
    \E d \in Rendered :
        LET charts == dialogs[d].charts
        IN  /\ charts.labels = <<"9:00", "12:00", "14:00">>
            /\ charts.offered = <<2, 1, 1>>
            /\ charts.abandonment = <<20, 10, 10>>
            /\ DataOf(d).service_trends[1].HOUR = 14
            /\ Len(charts.agents) = 3
            /\ charts.agents[1].x = 4
            /\ charts.agents[2].x = 5
            /\ charts.agents[3].x = 4

---------------------------------------------------------------------------
(* Properties of the buttons and their requests *)

\* the dialogs opened with document ref
DialogsOf(ref) == {d \in 1..Len(dialogs) : dialogs[d].data = ref}

\* C16: every open() issues one request, every request that succeeds opens
\* one dialog with its response, and there are never more dialogs than
\* requests that succeeded.
C16_OneDialogPerResponse ==
    /\ opens = Len(pending) + failed + Len(received)
    /\ Len(dialogs) <= Len(received)
    /\ \A ref \in 1..Len(received) : Cardinality(DialogsOf(ref)) = 1

\* three clicks: one request failed, two succeeded and opened two dialogs
C16_Witness ==
    /\ opens = 3
    /\ pending = <<>>
    /\ failed = 1
    /\ Len(received) = 2
    /\ Len(dialogs) = 2
    /\ dialogs[1].data # dialogs[2].data

\* C17: a request that fails is not sent again and stands in for nothing:
\* the step in which it fails takes it from the requests in flight and opens
\* no dialog, builds no view model and brings no document.
C17_FailureEndsRequest ==
    [][failed' # failed =>
          /\ failed' = failed + 1
          /\ Len(pending') = Len(pending) - 1
          /\ opens' = opens
          /\ dialogs' = dialogs
          /\ docs' = docs
          /\ received' = received]_vars

\* the only request failed: nothing is in flight and no dialog is open
C17_Witness ==
    /\ opens = 1
    /\ failed = 1
    /\ pending = <<>>
    /\ dialogs = <<>>
    /\ docs = <<>>

\* the queue dialogs whose charts were rendered
ChartsShown(d) ==
    /\ dialogs[d].component = "QueueDialogComponent"
    /\ ~dialogs[d].raised
    /\ dialogs[d].charts.rendered

\* C18: no two dialogs hold the same document, and a document differs from
\* what its response brought only when the charts of its own dialog were
\* rendered: the sort of one dialog's service_trends shows in no other
\* dialog's document.
C18_OwnDocument ==
    \A d \in 1..Len(dialogs) :
        /\ \A e \in 1..Len(dialogs) :
              e # d => dialogs[e].data # dialogs[d].data
        /\ ~ChartsShown(d) =>
              docs[dialogs[d].data] = received[dialogs[d].data]

\* two queue dialogs whose responses brought the same document: the charts
\* of the first were rendered and sorted its service_trends, and the
\* document of the second is as it arrived
C18_Witness ==
    \E d, e \in 1..Len(dialogs) :
        /\ d # e
        /\ ChartsShown(d)
        /\ dialogs[e].component = "QueueDialogComponent"
        /\ ~ChartsShown(e)
        /\ received[dialogs[d].data] = received[dialogs[e].data]
        /\ docs[dialogs[d].data] # received[dialogs[d].data]
        /\ docs[dialogs[e].data] = received[dialogs[e].data]

---------------------------------------------------------------------------
(* Properties of the call dialog's composed longest *)

\* C19: the call dialog's constructor leaves the report as it was: kpi has
\* the keys and values it arrived with, a longest that was an object is
\* still that object in kpi, and displayKpi, which alone holds the composed
\* string, is another object than kpi.
C19_ReportUnchanged ==
    \A d \in AnalysisDialogs :
        LET before == DataOf(d).kpi
            after == docs[dialogs[d].data].kpi
        IN  /\ after = before
            /\ docs[dialogs[d].data] = DataOf(d)
            /\ dialogs[d].displayKpiObject # <<dialogs[d].data, "kpi">>
            /\ Get(before, "longest").type = "object" =>
                  /\ Get(after, "longest") = Get(before, "longest")
                  /\ IsString(dialogs[d].displayKpi["longest"])

\* a report whose longest is an object: displayKpi.longest is the composed
\* string and kpi.longest is the object still
C19_Witness ==
    \E d \in AnalysisDialogs :
        /\ Get(DataOf(d).kpi, "longest").type = "object"
        /\ Get(docs[dialogs[d].data].kpi, "longest") =
              Obj([duration |-> Str("0 days 00:29:46"),
                   from_name |-> Str("A"),
                   to_name |-> Str("B")])
        /\ dialogs[d].displayKpi["longest"] = Str("0 days 00:29:46 (A → B)")

\* C20: the duration pipe returns the composed longest string
\* "<duration> (<from_name> → <to_name>)" as it is, whatever the duration
\* and the names are: the string ends in ")".
C20_ComposedUnchanged ==
    pipeCalls >= 1 => (EndsWith(pipeIn, ")") /\ pipeOut = pipeIn)

\* the pipe was applied to a composed string that holds a duration the pipe
\* would format on its own
C20_Witness ==
    /\ pipeCalls = 1
    /\ pipeIn = "0 days 00:29:46 (A → B)"
    /\ pipeOut = "0 days 00:29:46 (A → B)"

\* the call asked a queue dialog for the icon of one of the keys of its
\* displayKpi
ShownKeyCalled ==
    /\ IconCalled
    /\ lastCall.component = "QueueDialogComponent"
    /\ \E d \in Built : lastCall.key \in DOMAIN dialogs[d].displayKpi

\* C21: each of the eight keys of the queue dialog's displayKpi gets its icon
\* from the direct match of the queue dialog's getKpiIcon: none goes on to
\* the scan for a term it includes and none gets "insights".
C21_ShownKeysMatchDirectly ==
    ShownKeyCalled =>
        /\ lastCall.result.branch = "direct"
        /\ IsString(lastCall.result.icon)
        /\ lastCall.result.icon # Str("insights")

\* "Avg Handle Time", which includes the terms 'time' and 'handle', gets the
\* icon of 'avg handle time' from the direct match
C21_Witness ==
    /\ ShownKeyCalled
    /\ lastCall.key = "Avg Handle Time"
    /\ Contains("avg handle time", "time")
    /\ Contains("avg handle time", "handle")
    /\ lastCall.result = [icon |-> Str("schedule"), branch |-> "direct"]

===========================================================================
